---------------------------- MODULE Spec2Model ----------------------------
(***************************************************************************)
(* A model of the repomatic backend: the keyword categorizer and the       *)
(* aggregator of content_processor.py, the windowed fetches of             *)
(* github_collector.py and content_processor.py, the fan-out/fan-in of the *)
(* fetch handler of main.py, the per-item loop and the tier functions of   *)
(* content_enricher.py, the three handlers of app.py with the status codes *)
(* they answer, and the enrich and generate handlers of main.py.           *)
(*                                                                         *)
(* Text is a sequence of one-character strings, so that lower() and the    *)
(* substring test of Python's `in` are computed character by character.    *)
(***************************************************************************)
EXTENDS Integers, Sequences, FiniteSets, TLC

VARIABLES
    item,               \* the dict handed to _categorize_item
    category,           \* what _categorize_item returned (or the exception it raised)
    activity_data,      \* the dict handed to ContentProcessor.process
    processed_content,  \* what process returned (or the exception it raised)
    fetch_call,         \* one call of a fetch function: its inputs and the API's answer
    fetch_result,       \* what the fetch function returned (or the exception it raised)
    task_pc,            \* main.py fetch handler: position of each of the three fetch tasks
    handler_pc,         \* main.py fetch handler: position of the handler coroutine
    handler_env,        \* main.py fetch handler: the request and the process environment
    response,           \* main.py fetch handler: the HTTP response, once produced
    selected_items,     \* enrich_content: the selected items and what upstream does for each
    enrich_pc,          \* enrich_content: position in the method
    enrich_idx,         \* enrich_content: index of the next selected item
    enriched_prs,       \* enrich_content: the list being built
    enrich_result,      \* enrich_content: what the method returned (or raised)
    enrich_calls,       \* enrich_content: the upstream calls issued so far, in order
    assess_call,        \* one call of _assess_complexity or _assess_impact: its arguments
    assess_result,      \* the tier the call returned
    app_request,        \* app.py: the request, the process environment, what upstream does
    app_pc,             \* app.py: position of the request in its handler
    app_response,       \* app.py: the HTTP response, once produced
    app_calls,          \* app.py: the upstream calls of the fetch and generate handlers
    main_request,       \* main.py enrich / generate: the request and the environment
    main_pc,            \* main.py enrich / generate: position of the request
    main_response,      \* main.py enrich / generate: the HTTP response, once produced
    main_calls          \* main.py enrich / generate: the upstream calls issued

cat_vars     == <<item, category>>
proc_vars    == <<activity_data, processed_content>>
fetch_vars   == <<fetch_call, fetch_result>>
handler_vars == <<task_pc, handler_pc, handler_env, response>>
enrich_vars  == <<selected_items, enrich_pc, enrich_idx, enriched_prs, enrich_result,
                  enrich_calls>>
assess_vars  == <<assess_call, assess_result>>
app_vars     == <<app_request, app_pc, app_response, app_calls>>
main_vars    == <<main_request, main_pc, main_response, main_calls>>
vars == <<cat_vars, proc_vars, fetch_vars, handler_vars, enrich_vars, assess_vars, app_vars,
          main_vars>>

Idle == "idle"
CatIdle     == item = Idle /\ category = Idle
ProcIdle    == activity_data = Idle /\ processed_content = Idle
FetchIdle   == fetch_call = Idle /\ fetch_result = Idle
HandlerIdle == task_pc = Idle /\ handler_pc = Idle /\ handler_env = Idle /\ response = Idle
EnrichIdle  == /\ selected_items = Idle /\ enrich_pc = Idle /\ enrich_idx = Idle
               /\ enriched_prs = Idle /\ enrich_result = Idle /\ enrich_calls = Idle
AssessIdle  == assess_call = Idle /\ assess_result = Idle
AppIdle     == /\ app_request = Idle /\ app_pc = Idle
               /\ app_response = Idle /\ app_calls = Idle
MainIdle    == /\ main_request = Idle /\ main_pc = Idle
               /\ main_response = Idle /\ main_calls = Idle

-----------------------------------------------------------------------------
(* Text: str.lower() and the substring test `kw in text`.                  *)

UpperCase == <<"A","B","C","D","E","F","G","H","I","J","K","L","M",
               "N","O","P","Q","R","S","T","U","V","W","X","Y","Z">>
LowerCase == <<"a","b","c","d","e","f","g","h","i","j","k","l","m",
               "n","o","p","q","r","s","t","u","v","w","x","y","z">>

LowerChar(c) ==
    IF \E i \in 1..Len(UpperCase) : UpperCase[i] = c
    THEN LowerCase[CHOOSE i \in 1..Len(UpperCase) : UpperCase[i] = c]
    ELSE c

\* str.lower()
Lower(s) == [i \in 1..Len(s) |-> LowerChar(s[i])]

\* `kw in text` for two str
Contains(kw, text) ==
    \E i \in 0..(Len(text) - Len(kw)) : SubSeq(text, i + 1, i + Len(kw)) = kw

\* `kw in labels` for a list of str: an element equal to kw
InList(kw, labels) == \E j \in 1..Len(labels) : labels[j] = kw

\* A dict value: the key is absent, holds None, or holds a str / a list.
Absent   == [tag |-> "absent", val |-> <<>>]
None     == [tag |-> "null",   val |-> <<>>]
Val(v)   == [tag |-> "value",  val |-> v]

\* dict.get(key, default): the default only when the key is absent
Get(field, default) == IF field.tag = "absent" THEN Val(default) ELSE field

-----------------------------------------------------------------------------
(* ContentProcessor._categorize_item                                       *)

kw_doc         == <<"d","o","c">>
kw_docs        == <<"d","o","c","s">>
kw_documentation == <<"d","o","c","u","m","e","n","t","a","t","i","o","n">>
kw_bug         == <<"b","u","g">>
kw_fix         == <<"f","i","x">>
kw_hotfix      == <<"h","o","t","f","i","x">>
kw_feature     == <<"f","e","a","t","u","r","e">>
kw_enhancement == <<"e","n","h","a","n","c","e","m","e","n","t">>
kw_feat        == <<"f","e","a","t">>
kw_refactor    == <<"r","e","f","a","c","t","o","r">>
kw_perf        == <<"p","e","r","f">>
kw_performance == <<"p","e","r","f","o","r","m","a","n","c","e">>
kw_test        == <<"t","e","s","t">>

DocKeywords  == {kw_doc, kw_docs, kw_documentation}
BugKeywords  == {kw_bug, kw_fix, kw_hotfix}
FeatKeywords == {kw_feature, kw_enhancement, kw_feat}
CodeKeywords == {kw_refactor, kw_perf, kw_performance, kw_test}

Categories == {"documentation", "bug_fixes", "features", "code_changes", "other"}

\* line 232: any(keyword in title or keyword in body for keyword in [...])
DocRuleLabels(title, body, labels) ==
    \E kw \in DocKeywords :
        Contains(kw, title) \/ Contains(kw, body) \/ InList(kw, labels)
DocRule(title, body, labels) ==
    \E kw \in DocKeywords : Contains(kw, title) \/ Contains(kw, body)

\* line 236: any(keyword in title or keyword in body or keyword in labels ...)
BugRule(title, body, labels) ==
    \E kw \in BugKeywords :
        Contains(kw, title) \/ Contains(kw, body) \/ InList(kw, labels)

\* line 240
FeatRuleSubstring(title, body, labels) ==
    \E kw \in FeatKeywords :
        \/ Contains(kw, title)
        \/ Contains(kw, body)
        \/ \E j \in 1..Len(labels) : Contains(kw, labels[j])
FeatRule(title, body, labels) ==
    \E kw \in FeatKeywords :
        Contains(kw, title) \/ Contains(kw, body) \/ InList(kw, labels)

\* line 244
CodeRule(title, body, labels) ==
    \E kw \in CodeKeywords : Contains(kw, title) \/ Contains(kw, body)

\* lines 231-248: the rules in the order the method tries them
FirstMatchFeatBeforeBug(title, body, labels) ==
    IF DocRule(title, body, labels) THEN "documentation"
    ELSE IF FeatRule(title, body, labels) THEN "features"
    ELSE IF BugRule(title, body, labels) THEN "bug_fixes"
    ELSE IF CodeRule(title, body, labels) THEN "code_changes"
    ELSE "other"
FirstMatch(title, body, labels) ==
    IF DocRule(title, body, labels) THEN "documentation"
    ELSE IF BugRule(title, body, labels) THEN "bug_fixes"
    ELSE IF FeatRule(title, body, labels) THEN "features"
    ELSE IF CodeRule(title, body, labels) THEN "code_changes"
    ELSE "other"

\* the commit message is read where a record has no title
CategorizeItemReadingMessage(it) ==
    LET title  == IF it.title.tag = "absent" THEN Get(it.message, <<>>) ELSE it.title
        body   == Get(it.body, <<>>)
        labels == Get(it.labels, <<>>)
    IN  IF title.tag = "null" \/ body.tag = "null"
        THEN "AttributeError"
        ELSE FirstMatch(Lower(title.val), Lower(body.val),
                        [j \in 1..Len(labels.val) |-> Lower(labels.val[j])])

\* lines 227-229 then the rules.  item.get('title', '') is None when the key
\* holds None, and None.lower() raises AttributeError.
CategorizeItem(it) ==
    LET title  == Get(it.title, <<>>)
        body   == Get(it.body, <<>>)
        labels == Get(it.labels, <<>>)
    IN  IF title.tag = "null" \/ body.tag = "null"
        THEN "AttributeError"
        ELSE FirstMatch(Lower(title.val), Lower(body.val),
                        [j \in 1..Len(labels.val) |-> Lower(labels.val[j])])

-----------------------------------------------------------------------------
(* The items the categorizer is tried on.                                  *)

MaxTitleWords == 2
MaxLabels     == 2

w_Bug       == <<"B","u","g">>
w_fix       == <<" ","f","i","x">>
w_Do        == <<"D","o">>
w_cs        == <<"c","s">>
w_defeature == <<"d","e","f","e","a","t","u","r","e">>
w_oldAPI    == <<" ","o","l","d"," ","A","P","I">>
TitleWords  == {w_Bug, w_fix, w_Do, w_cs, w_defeature, w_oldAPI}

RECURSIVE Phrases(_)
Phrases(n) ==
    IF n = 0 THEN {<<>>}
    ELSE Phrases(n - 1) \cup {p \o w : p \in Phrases(n - 1), w \in TitleWords}

b_docs == <<"U","p","d","a","t","e"," ","d","o","c","s">>
b_perf == <<"P","e","r","f"," ","w","o","r","k">>
BodyTexts == {<<>>, b_docs, b_perf}

l_bug        == <<"b","u","g">>
l_Feature    == <<"F","e","a","t","u","r","e">>
l_documentation == kw_documentation
l_newfeature == <<"n","e","w","-","f","e","a","t","u","r","e">>
LabelNames   == {l_bug, l_Feature, l_documentation, l_newfeature}

RECURSIVE LabelLists(_)
LabelLists(n) ==
    IF n = 0 THEN {<<>>}
    ELSE LabelLists(n - 1) \cup
         {Append(ls, l) : ls \in LabelLists(n - 1), l \in LabelNames}

Titles == {Absent, None} \cup {Val(p) : p \in Phrases(MaxTitleWords)}
Bodies == {Absent, None} \cup {Val(b) : b \in BodyTexts}
Labels == {Absent} \cup {Val(ls) : ls \in LabelLists(MaxLabels)}
Items  == [title : Titles, body : Bodies, labels : Labels]

InitCategorize ==
    /\ item \in Items
    /\ category = "pending"
    /\ ProcIdle /\ FetchIdle /\ HandlerIdle /\ EnrichIdle /\ AssessIdle /\ AppIdle /\ MainIdle

\* one call of _categorize_item(item)
Categorize ==
    /\ category = "pending"
    /\ category' = CategorizeItem(item)
    /\ UNCHANGED <<item, proc_vars, fetch_vars, handler_vars, enrich_vars,
                   assess_vars, app_vars, main_vars>>

NextCategorize == Categorize
SpecCategorize == InitCategorize /\ [][NextCategorize]_vars


-----------------------------------------------------------------------------
(* ContentProcessor.process: the aggregator.                               *)

MaxPerSource == 2

t_oldAPI == <<"o","l","d"," ","A","P","I">>
m_fixdocs == <<"f","i","x"," ","d","o","c","s">>

\* What the fetchers put in a pull request or issue record, as far as process
\* and _categorize_item read it: GitHubCollector stores title and body as the
\* API gives them (body is null for an empty description) and no labels key.
PullTexts  == { [title |-> Val(w_Bug \o w_fix),         body |-> Val(<<>>)],
                [title |-> Val(w_Do \o w_cs),           body |-> Val(b_perf)],
                [title |-> Val(t_oldAPI),               body |-> Val(<<>>)],
                [title |-> Val(w_defeature \o w_oldAPI), body |-> None] }
IssueTexts == { [title |-> Val(w_defeature \o w_oldAPI), body |-> Val(<<>>)],
                [title |-> Val(t_oldAPI),               body |-> Val(b_perf)],
                [title |-> Val(t_oldAPI),               body |-> None] }
CommitMessages == { m_fixdocs, t_oldAPI }

RECURSIVE SeqsUpTo(_, _)
SeqsUpTo(S, n) ==
    IF n = 0 THEN {<<>>}
    ELSE SeqsUpTo(S, n - 1) \cup {Append(q, x) : q \in SeqsUpTo(S, n - 1), x \in S}

\* github_collector.py 46-56 and 103-113: a pull request or issue record
NumberedRecord(texts, i) ==
    [number |-> Val(i), title |-> texts.title, body |-> texts.body,
     labels |-> Absent, sha |-> Absent, message |-> Absent]
\* github_collector.py 76-82: a commit record
CommitRecord(msg, i) ==
    [number |-> Absent, title |-> Absent, body |-> Absent,
     labels |-> Absent, sha |-> Val(i), message |-> Val(msg)]

ActivityData ==
    { [pulls   |-> [i \in 1..Len(ps) |-> NumberedRecord(ps[i], i)],
       issues  |-> [i \in 1..Len(is) |-> NumberedRecord(is[i], Len(ps) + i)],
       commits |-> [i \in 1..Len(cs) |-> CommitRecord(cs[i], i)]] :
        ps \in SeqsUpTo(PullTexts, MaxPerSource),
        is \in SeqsUpTo(IssueTexts, MaxPerSource),
        cs \in SeqsUpTo(CommitMessages, MaxPerSource) }

\* lines 175-184, 190-199, 205-212: the record appended for one item
\* (url, created_at and author are copied the same way and left out)
ItemData(type, rec) ==
    IF type = "commit"
    THEN [type |-> type, sha |-> rec.sha, message |-> rec.message]
    ELSE [type |-> type, number |-> rec.number, title |-> rec.title,
          body |-> Get(rec.body, <<>>), labels |-> Get(rec.labels, <<>>)]

\* lines 164-170
EmptyContent == [c \in Categories |-> <<>>]

\* One of the three loops (173-185, 188-200, 203-213): categorize each item in
\* list order and append it to its category; an exception ends the method.
RECURSIVE ProcessList(_, _, _)
ProcessList(acc, type, list) ==
    IF acc.status = "raised" \/ list = <<>> THEN acc
    ELSE LET c == CategorizeItem(Head(list))
         IN  IF c \notin Categories
             THEN [status |-> "raised", value |-> c]
             ELSE ProcessList(
                      [status |-> "returned",
                       value  |-> [acc.value EXCEPT
                                     ![c] = Append(@, ItemData(type, Head(list)))]],
                      type, Tail(list))

\* lines 161-221: pulls, then issues, then commits; the except clause re-raises
ProcessAll(data) ==
    ProcessList(
        ProcessList(
            ProcessList([status |-> "returned", value |-> EmptyContent],
                        "pull_request", data.pulls),
            "issue", data.issues),
        "commit", data.commits)

Pending == [status |-> "pending", value |-> <<>>]

InitProcess ==
    /\ activity_data \in ActivityData
    /\ processed_content = Pending
    /\ CatIdle /\ FetchIdle /\ HandlerIdle /\ EnrichIdle /\ AssessIdle /\ AppIdle /\ MainIdle

\* one call of process(activity_data)
Process ==
    /\ processed_content = Pending
    /\ processed_content' = ProcessAll(activity_data)
    /\ UNCHANGED <<activity_data, cat_vars, fetch_vars, handler_vars, enrich_vars,
                   assess_vars, app_vars, main_vars>>

NextProcess == Process
SpecProcess == InitProcess /\ [][NextProcess]_vars

-----------------------------------------------------------------------------
(* The windowed fetches: GitHubCollector.async_fetch_pulls / _issues /      *)
(* _commits and ContentProcessor.fetch_pull_requests.                       *)
(*                                                                         *)
(* A datetime is [wall, tz]: seconds on the wall clock and tzinfo ("utc" or *)
(* "naive").  A timestamp string of the API is [wall, zone] with the zone   *)
(* suffix it carries ("Z" or "+00:00"; the REST API writes UTC).            *)

max_items  == 30
DaySeconds == 86400
MaxResp     == 3      \* short API answers: every sequence up to this length
MaxExtra    == 1      \* long API answers: up to max_items + MaxExtra items
MaxDaysBack == 2

Clock == 40 * DaySeconds + 4321       \* datetime.now(timezone.utc), in seconds

\* datetime.now(timezone.utc) - timedelta(days=days_back)
SinceDate(now, days_back) == [wall |-> now - days_back * DaySeconds, tz |-> "utc"]

\* datetime.fromisoformat(s.replace('Z', '+00:00')): an aware datetime for both
\* spellings of UTC
FromIsoFormat(ts) ==
    IF ts.zone \in {"Z", "+00:00"} THEN [wall |-> ts.wall, tz |-> "utc"]
    ELSE [wall |-> ts.wall, tz |-> "naive"]

\* Comparing a naive with an aware datetime raises TypeError.
Comparable(a, b) == a.tz = b.tz

\* content_processor.py 75:
\* pr.created_at.replace(tzinfo=timezone.utc) if pr.created_at.tzinfo is None else pr.created_at
KeepTzinfo(created_at) == created_at
NormalizeCreatedAt(created_at) ==
    IF created_at.tz = "naive" THEN [created_at EXCEPT !.tz = "utc"] ELSE created_at

\* github_collector.py 45: created_at >= since_date
InWindow(created, since) == created.wall >= since.wall

\* github_collector.py 43-58: the loop over the pulls of the answer.
\* acc is [items, examined].
RECURSIVE FetchPullsLoop(_, _, _)
FetchPullsLoop(pulls, since, acc) ==
    IF pulls = <<>> THEN acc
    ELSE LET pull    == Head(pulls)
             created == FromIsoFormat(pull.created_at)
             items   == IF InWindow(created, since)
                        THEN Append(acc.items,
                                    [number |-> pull.number, created_at |-> pull.created_at])
                        ELSE acc.items
             acc2    == [items |-> items, examined |-> acc.examined + 1]
         IN  IF Len(items) >= max_items THEN acc2
             ELSE FetchPullsLoop(Tail(pulls), since, acc2)

\* github_collector.py 100-115: the loop over the issues of the answer
RECURSIVE FetchIssuesLoop(_, _)
FetchIssuesLoop(issues, acc) ==
    IF issues = <<>> THEN acc
    ELSE LET issue == Head(issues)
             items == IF ~issue.is_pull_request
                      THEN Append(acc.items,
                                  [number |-> issue.number, created_at |-> issue.created_at])
                      ELSE acc.items
             acc2  == [items |-> items, examined |-> acc.examined + 1]
         IN  IF Len(items) >= max_items THEN acc2
             ELSE FetchIssuesLoop(Tail(issues), acc2)

\* github_collector.py 75-82: every commit of commits[:max_items]
FetchCommitsLoop(commits) ==
    LET n == IF Len(commits) < max_items THEN Len(commits) ELSE max_items
    IN  [items    |-> [i \in 1..n |-> [sha |-> commits[i].sha,
                                       created_at |-> commits[i].date]],
         examined |-> n]

\* content_processor.py 72-98: the loop over repo.get_pulls(sort='created',
\* direction='desc'); an exception inside the body skips the pull request.
RECURSIVE FetchPullRequestsLoop(_, _, _)
FetchPullRequestsLoop(pulls, since, acc) ==
    IF pulls = <<>> THEN acc
    ELSE LET pr      == Head(pulls)
             created == NormalizeCreatedAt(pr.created_at)
             acc2    == [acc EXCEPT !.examined = @ + 1]
         IN  IF ~Comparable(created, since)
             THEN FetchPullRequestsLoop(Tail(pulls), since, acc2)
             ELSE IF created.wall < since.wall THEN acc2
             ELSE FetchPullRequestsLoop(
                      Tail(pulls), since,
                      [acc2 EXCEPT !.items =
                          Append(@, [number |-> pr.number, created_at |-> created])])

NoItems == [items |-> <<>>, examined |-> 0]
Returned(v) == [status |-> "returned", value |-> v]
Raised(e)   == [status |-> "raised", value |-> e]

\* github_collector.py 28-60
async_fetch_pulls(call) ==
    IF call.upstream # "ok" THEN Raised("ClientError")
    ELSE Returned(FetchPullsLoop(call.answer, SinceDate(call.now, call.days_back), NoItems))

\* github_collector.py 86-117
async_fetch_issues(call) ==
    IF call.upstream # "ok" THEN Raised("ClientError")
    ELSE Returned(FetchIssuesLoop(call.answer, NoItems))

\* github_collector.py 62-84
async_fetch_commits(call) ==
    IF call.upstream # "ok" THEN Raised("ClientError")
    ELSE Returned(FetchCommitsLoop(call.answer))

\* content_processor.py 45-113
fetch_pull_requests(call) ==
    IF call.upstream = "repo_404" THEN Raised("Repository not found")
    ELSE IF call.upstream = "repo_error" THEN Raised("Failed to access repository")
    ELSE IF call.upstream = "pulls_error" THEN Raised("Failed to fetch pull requests")
    ELSE Returned(FetchPullRequestsLoop(call.answer,
                                        SinceDate(call.now, call.days_back), NoItems))

(* The answers of the hosting API the fetches are tried on.  Timestamps lie  *)
(* around the lookback bound: a day before it, one second before it, on it, *)
(* one second after it.                                                     *)

WindowOffsets == {0 - DaySeconds, 0 - 1, 0, 1}

\* n items of kind `fresh`, the last one replaced by `last`
Filled(n, fresh, last) == [i \in 1..n |-> IF i = n THEN last ELSE fresh]

\* Every sequence of kinds up to MaxResp, and the long answers around the cap.
Answers(Kinds, fresh) ==
    SeqsUpTo(Kinds, MaxResp) \cup
    { Filled(n, fresh, k) : n \in (max_items - 1)..(max_items + MaxExtra), k \in Kinds }

\* GET /repos/.../pulls: created_at strings in UTC
PullKinds(s) ==
    { [created_at |-> [wall |-> s + o, zone |-> "Z"]] : o \in WindowOffsets }
    \cup { [created_at |-> [wall |-> s, zone |-> "+00:00"]] }
FreshPull(s) == [created_at |-> [wall |-> s + 1, zone |-> "Z"]]
PullAnswers(s) ==
    { [i \in 1..Len(a) |-> [number |-> i, created_at |-> a[i].created_at]] :
        a \in Answers(PullKinds(s), FreshPull(s)) }

\* GET /repos/.../issues?since=...: issues and pull requests UPDATED at or
\* after `since`, whenever they were created
IssueKinds(s) ==
    { [created_at |-> [wall |-> s + o, zone |-> "Z"], is_pull_request |-> b] :
        o \in WindowOffsets, b \in BOOLEAN }
FreshIssue(s) == [created_at |-> [wall |-> s + 1, zone |-> "Z"], is_pull_request |-> FALSE]
IssueAnswers(s) ==
    { [i \in 1..Len(a) |-> [number |-> i, created_at |-> a[i].created_at,
                            updated_at |-> [wall |-> s + 1, zone |-> "Z"],
                            is_pull_request |-> a[i].is_pull_request]] :
        a \in Answers(IssueKinds(s), FreshIssue(s)) }

\* GET /repos/.../commits?since=...: commits whose committer date is at or after
\* `since`; commit.author.date may be older (a rebased or cherry-picked commit)
CommitKinds(s) ==
    { [date |-> [wall |-> s + o, zone |-> "Z"]] : o \in {0 - DaySeconds, 0, 1} }
FreshCommit(s) == [date |-> [wall |-> s + 1, zone |-> "Z"]]
CommitAnswers(s) ==
    { [i \in 1..Len(a) |-> [sha |-> i, date |-> a[i].date]] :
        a \in Answers(CommitKinds(s), FreshCommit(s)) }

\* repo.get_pulls(state='all', sort='created', direction='desc'): newest first;
\* created_at is a datetime, naive or aware depending on the client library
SortedDesc(a) == \A i \in 1..Len(a) : \A j \in i..Len(a) : a[i].wall >= a[j].wall
PaginatedPulls(s) ==
    { [i \in 1..Len(a) |-> [number |-> i, created_at |-> [wall |-> a[i].wall, tz |-> tz]]] :
        a \in { b \in Answers({[wall |-> s + o] : o \in WindowOffsets}, [wall |-> s + 1]) :
                  SortedDesc(b) },
        tz \in {"naive", "utc"} }

Call(fn, d, up, a) ==
    [fn |-> fn, now |-> Clock, days_back |-> d, upstream |-> up, answer |-> a]

FetchCalls ==
    UNION { LET s == SinceDate(Clock, d).wall
            IN  { Call("async_fetch_pulls", d, "ok", a) : a \in PullAnswers(s) }
                \cup { Call("async_fetch_issues", d, "ok", a) : a \in IssueAnswers(s) }
                \cup { Call("async_fetch_commits", d, "ok", a) : a \in CommitAnswers(s) }
                \cup { Call("fetch_pull_requests", d, "ok", a) : a \in PaginatedPulls(s) }
                \cup { Call(fn, d, "error", <<>>) :
                         fn \in {"async_fetch_pulls", "async_fetch_issues",
                                 "async_fetch_commits"} }
                \cup { Call("fetch_pull_requests", d, up, <<>>) :
                         up \in {"repo_404", "repo_error", "pulls_error"} }
            : d \in 1..MaxDaysBack }

InitFetch ==
    /\ fetch_call \in FetchCalls
    /\ fetch_result = Pending
    /\ CatIdle /\ ProcIdle /\ HandlerIdle /\ EnrichIdle /\ AssessIdle /\ AppIdle /\ MainIdle

FetchFrame == UNCHANGED <<fetch_call, cat_vars, proc_vars, handler_vars, enrich_vars,
                          assess_vars, app_vars, main_vars>>

AsyncFetchPulls ==
    /\ fetch_call.fn = "async_fetch_pulls" /\ fetch_result = Pending
    /\ fetch_result' = async_fetch_pulls(fetch_call)
    /\ FetchFrame

AsyncFetchIssues ==
    /\ fetch_call.fn = "async_fetch_issues" /\ fetch_result = Pending
    /\ fetch_result' = async_fetch_issues(fetch_call)
    /\ FetchFrame

AsyncFetchCommits ==
    /\ fetch_call.fn = "async_fetch_commits" /\ fetch_result = Pending
    /\ fetch_result' = async_fetch_commits(fetch_call)
    /\ FetchFrame

FetchPullRequests ==
    /\ fetch_call.fn = "fetch_pull_requests" /\ fetch_result = Pending
    /\ fetch_result' = fetch_pull_requests(fetch_call)
    /\ FetchFrame

NextFetch == AsyncFetchPulls \/ AsyncFetchIssues \/ AsyncFetchCommits \/ FetchPullRequests
SpecFetch == InitFetch /\ [][NextFetch]_vars

-----------------------------------------------------------------------------
(* main.py, POST /api/fetch-github-content: the handler coroutine and the   *)
(* three fetch tasks asyncio.gather runs on the one event loop.  A step is  *)
(* what a coroutine does between two suspension points.                     *)

FetchTasks == {"pulls", "issues", "commits"}

\* The request and the process environment, as far as the handler reads them:
\* whether each string is non-empty, and whether a fetched pull request or
\* issue has a null body (on which process raises, see CategorizeItem).
HandlerEnvs ==
    [repo_name : BOOLEAN, github_token : BOOLEAN,
     env_REPO_NAME : BOOLEAN, env_GITHUB_TOKEN : BOOLEAN, null_body : BOOLEAN]

\* github_collector.py 12-16: GitHubCollector.__init__ raises ValueError
CollectorAccepts(env) ==
    /\ env.repo_name \/ env.env_REPO_NAME
    /\ env.github_token \/ env.env_GITHUB_TOKEN

\* content_processor.py 28-43, called with no config (main.py 64)
ProcessorAccepts(env) == env.env_GITHUB_TOKEN

NoResponse == [status |-> 0, aggregated |-> FALSE, results |-> {}]
\* main.py 82: HTTPException(status_code=500, detail=str(e))
ErrorResponse(code) == [status |-> code, aggregated |-> FALSE, results |-> {}]

InitHandler ==
    /\ handler_env \in HandlerEnvs
    /\ handler_pc = "start"
    /\ task_pc = [k \in FetchTasks |-> "none"]
    /\ response = NoResponse
    /\ CatIdle /\ ProcIdle /\ FetchIdle /\ EnrichIdle /\ AssessIdle /\ AppIdle /\ MainIdle

HandlerFrame == UNCHANGED <<handler_env, cat_vars, proc_vars, fetch_vars, enrich_vars,
                            assess_vars, app_vars, main_vars>>

\* main.py 41-55: build the collector, open the session, hand the three
\* coroutines to asyncio.gather and suspend on it; a ValueError of the
\* constructor goes to the except clause of line 81.
HandlerStart ==
    /\ handler_pc = "start"
    /\ IF CollectorAccepts(handler_env)
       THEN /\ task_pc' = [k \in FetchTasks |-> "created"]
            /\ handler_pc' = "gather"
            /\ UNCHANGED response
       ELSE /\ response' = ErrorResponse(500)
            /\ handler_pc' = "done"
            /\ UNCHANGED task_pc
    /\ HandlerFrame

\* A fetch task runs to its first suspension: `async with session.get(...)`
\* (github_collector.py 39, 71, 96).
TaskStart(k) ==
    /\ task_pc[k] = "created"
    /\ task_pc' = [task_pc EXCEPT ![k] = "awaiting_response"]
    /\ UNCHANGED <<handler_pc, response>>
    /\ HandlerFrame

\* The response headers arrive and the task suspends on response.json()
\* (lines 40, 72, 97), or the request fails and the task ends with the error.
TaskResponse(k) ==
    /\ task_pc[k] = "awaiting_response"
    /\ \A j \in FetchTasks : task_pc[j] # "created"   \* ready tasks run before I/O is polled
    /\ \E next \in {"awaiting_json", "failed"} :
           task_pc' = [task_pc EXCEPT ![k] = next]
    /\ UNCHANGED <<handler_pc, response>>
    /\ HandlerFrame

\* The body arrives; the task builds its list and returns it, or raises (a body
\* that is no list of items, a missing key).
TaskJson(k) ==
    /\ task_pc[k] = "awaiting_json"
    /\ \E next \in {"done", "failed"} :
           task_pc' = [task_pc EXCEPT ![k] = next]
    /\ UNCHANGED <<handler_pc, response>>
    /\ HandlerFrame

\* asyncio.gather(*tasks), return_exceptions=False: its result is ready when
\* every task has returned ...
AnyFetched(pcs) == \E k \in FetchTasks : pcs[k] = "done"
AllFetched(pcs) == \A k \in FetchTasks : pcs[k] = "done"
\* ... and the first exception of a task is propagated at once to the awaiting
\* handler; the other tasks are not cancelled and run on.
SomeFailed(pcs) == \E k \in FetchTasks : pcs[k] = "failed"

\* main.py 55-79: gather returns the three lists; with no further suspension
\* the handler builds ContentProcessor(), calls process and returns.
GatherReturns ==
    /\ handler_pc = "gather"
    /\ ~SomeFailed(task_pc)
    /\ AllFetched(task_pc)
    /\ response' =
          IF ~ProcessorAccepts(handler_env) THEN ErrorResponse(500)
          ELSE IF handler_env.null_body
               THEN [status |-> 500, aggregated |-> TRUE, results |-> {}]
               ELSE [status |-> 200, aggregated |-> TRUE,
                     results |-> {k \in FetchTasks : task_pc[k] = "done"}]
    /\ handler_pc' = "done"
    /\ UNCHANGED task_pc
    /\ HandlerFrame

\* main.py 55, 81-82: gather raises the first exception of a task; the session
\* is closed and the except clause answers 500.
GatherRaises ==
    /\ handler_pc = "gather"
    /\ SomeFailed(task_pc)
    /\ response' = ErrorResponse(500)
    /\ handler_pc' = "done"
    /\ UNCHANGED task_pc
    /\ HandlerFrame

NextHandler ==
    \/ HandlerStart
    \/ \E k \in FetchTasks : TaskStart(k)
    \/ \E k \in FetchTasks : TaskResponse(k)
    \/ \E k \in FetchTasks : TaskJson(k)
    \/ GatherReturns
    \/ GatherRaises
SpecHandler == InitHandler /\ [][NextHandler]_vars

-----------------------------------------------------------------------------
(* ContentEnricher.enrich_content: one repository lookup, then one loop     *)
(* iteration per selected item.                                             *)

MaxSelected == 3

\* What the hosting API and the generative service do for a pull request.
Upstreams == {"ok", "ai_fails", "get_pull_fails", "get_files_fails", "get_commits_fails"}

\* A selected item of the request body, with the position it has in the list as
\* its number: the 'type' key may be missing or name another kind, the 'number'
\* key may be missing.
SelectedKinds ==
    { [type |-> "pull_request", number |-> TRUE, upstream |-> u] : u \in Upstreams }
    \cup { [type |-> "pull_request", number |-> FALSE, upstream |-> "ok"],
           [type |-> "issue",        number |-> TRUE,  upstream |-> "ok"],
           [type |-> "commit",       number |-> FALSE, upstream |-> "ok"],
           [type |-> "missing",      number |-> TRUE,  upstream |-> "ok"] }

SelectedLists ==
    { [i \in 1..Len(q) |->
          [type     |-> q[i].type,
           number   |-> IF q[i].number THEN Val(i) ELSE Absent,
           upstream |-> q[i].upstream]] : q \in SeqsUpTo(SelectedKinds, MaxSelected) }

\* The changed files and commits the hosting API lists for a pull request.
FilesChanged == << [additions |-> 30, deletions |-> 25] >>
PrCommits    == << [sha |-> 1], [sha |-> 2] >>

RECURSIVE TotalChanges(_)
TotalChanges(files) ==
    IF files = <<>> THEN 0
    ELSE Head(files).additions + Head(files).deletions + TotalChanges(Tail(files))

\* the first boundary taken inclusive
AssessComplexityInclusive(file_changes) ==
    IF TotalChanges(file_changes) <= 50 THEN "Low"
    ELSE IF TotalChanges(file_changes) < 200 THEN "Medium"
    ELSE "High"

\* content_enricher.py 159-166
_assess_complexity(file_changes) ==
    IF TotalChanges(file_changes) < 50 THEN "Low"
    ELSE IF TotalChanges(file_changes) < 200 THEN "Medium"
    ELSE "High"

\* `or` in place of `and`
AssessImpactEither(file_changes, commits) ==
    IF Len(file_changes) < 3 \/ Len(commits) < 3 THEN "Low"
    ELSE IF Len(file_changes) < 10 \/ Len(commits) < 10 THEN "Medium"
    ELSE "High"

\* content_enricher.py 168-175
_assess_impact(file_changes, commits) ==
    IF Len(file_changes) < 3 /\ Len(commits) < 3 THEN "Low"
    ELSE IF Len(file_changes) < 10 /\ Len(commits) < 10 THEN "Medium"
    ELSE "High"

\* the tiers are computed though the call failed
AnalyzeTiersOnFailure(ai_ok, file_changes, commit_summary) ==
    [summary    |-> IF ai_ok THEN "generated" ELSE "AI analysis failed",
     complexity |-> _assess_complexity(file_changes),
     impact     |-> _assess_impact(file_changes, commit_summary)]
\* content_enricher.py 105-145: the except clause returns the placeholders
_analyze_pr_with_ai(ai_ok, file_changes, commit_summary) ==
    IF ai_ok
    THEN [summary    |-> "generated",
          complexity |-> _assess_complexity(file_changes),
          impact     |-> _assess_impact(file_changes, commit_summary)]
    ELSE [summary |-> "AI analysis failed", complexity |-> "Unknown", impact |-> "Unknown"]

\* content_enricher.py 54-97: the body of the loop for one item.  `raised` says
\* the inner except clause was entered; `calls` are the upstream calls issued.
NoEntry == [raised |-> FALSE, entries |-> <<>>, calls |-> <<>>]
EnrichOne(it) ==
    IF it.type = "missing"
    THEN [NoEntry EXCEPT !.raised = TRUE]                          \* KeyError: 'type'
    ELSE IF it.type # "pull_request" THEN NoEntry
    ELSE IF it.number.tag = "absent"
    THEN [NoEntry EXCEPT !.raised = TRUE]                          \* KeyError: 'number'
    ELSE LET n == it.number.val
             pull    == <<"get_pull", n>>
             files   == <<"get_files", n>>
             commits == <<"get_commits", n>>
             ai      == <<"chat.completions.create", n>>
         IN  IF it.upstream = "get_pull_fails"
             THEN [raised |-> TRUE, entries |-> <<>>, calls |-> <<pull>>]
             ELSE IF it.upstream = "get_files_fails"
             THEN [raised |-> TRUE, entries |-> <<>>, calls |-> <<pull, files>>]
             ELSE IF it.upstream = "get_commits_fails"
             THEN [raised |-> TRUE, entries |-> <<>>, calls |-> <<pull, files, commits>>]
             ELSE [raised  |-> FALSE,
                   entries |-> << [number   |-> n,
                                   files_changed |-> FilesChanged,
                                   commits  |-> PrCommits,
                                   analysis |-> _analyze_pr_with_ai(
                                                   it.upstream # "ai_fails",
                                                   FilesChanged, PrCommits)] >>,
                   calls   |-> <<pull, files, commits, ai>>]

\* content_enricher.py 95-97: `except Exception ... continue` goes on with the
\* next item
StopAfterError(idx, raised) == IF raised THEN Len(selected_items) + 1 ELSE idx + 1
NextItem(idx, raised) == idx + 1

InitEnrich ==
    /\ selected_items \in SelectedLists
    /\ enrich_pc = "start"
    /\ enrich_idx = 1
    /\ enriched_prs = <<>>
    /\ enrich_result = Pending
    /\ enrich_calls = <<>>
    /\ CatIdle /\ ProcIdle /\ FetchIdle /\ HandlerIdle /\ AssessIdle /\ AppIdle /\ MainIdle

EnrichFrame == UNCHANGED <<selected_items, cat_vars, proc_vars, fetch_vars, handler_vars,
                           assess_vars, app_vars, main_vars>>

\* content_enricher.py 50: repo = self.github.get_repo(repo_name) succeeds
GetRepoOk ==
    /\ enrich_pc = "start"
    /\ enrich_pc' = "loop"
    /\ enrich_calls' = Append(enrich_calls, <<"get_repo", 0>>)
    /\ UNCHANGED <<enrich_idx, enriched_prs, enrich_result>>
    /\ EnrichFrame

\* the lookup is tried a second time before the method gives up
GetRepoRetried ==
    /\ enrich_pc = "start"
    /\ enrich_pc' = "done"
    /\ enrich_calls' = enrich_calls \o << <<"get_repo", 0>>, <<"get_repo", 0>> >>
    /\ enrich_result' = Raised("GithubException")
    /\ UNCHANGED <<enrich_idx, enriched_prs>>
    /\ EnrichFrame

\* content_enricher.py 50, 101-103: the lookup raises and enrich_content re-raises
GetRepoFails ==
    /\ enrich_pc = "start"
    /\ enrich_pc' = "done"
    /\ enrich_calls' = Append(enrich_calls, <<"get_repo", 0>>)
    /\ enrich_result' = Raised("GithubException")
    /\ UNCHANGED <<enrich_idx, enriched_prs>>
    /\ EnrichFrame

\* content_enricher.py 53-97: one iteration of the loop
EnrichItem ==
    /\ enrich_pc = "loop"
    /\ enrich_idx <= Len(selected_items)
    /\ LET r == EnrichOne(selected_items[enrich_idx])
       IN  /\ enriched_prs' = enriched_prs \o r.entries
           /\ enrich_calls' = enrich_calls \o r.calls
           /\ enrich_idx' = NextItem(enrich_idx, r.raised)
    /\ UNCHANGED <<enrich_pc, enrich_result>>
    /\ EnrichFrame

\* content_enricher.py 99: return {'pull_requests': enriched_prs}
EnrichReturn ==
    /\ enrich_pc = "loop"
    /\ enrich_idx > Len(selected_items)
    /\ enrich_pc' = "done"
    /\ enrich_result' = Returned(enriched_prs)
    /\ UNCHANGED <<enrich_idx, enriched_prs, enrich_calls>>
    /\ EnrichFrame

NextEnrich == GetRepoOk \/ GetRepoFails \/ EnrichItem \/ EnrichReturn
SpecEnrich == InitEnrich /\ [][NextEnrich]_vars

-----------------------------------------------------------------------------
(* ContentEnricher._assess_complexity and _assess_impact, each called on    *)
(* its own arguments.                                                       *)

MaxFiles == 2       \* changed files handed to _assess_complexity
MaxCount == 11      \* files and commits handed to _assess_impact

\* One changed file as list(pr.get_files()) describes it (lines 62-69): the
\* line counts lie around the two tier boundaries.
ChangedFiles == [additions : {0, 25, 49, 50, 199, 200}, deletions : {0, 1}]

\* n changed files / n commits, for the functions that read only the lengths
NFiles(n)   == [i \in 1..n |-> [additions |-> 1, deletions |-> 0]]
NCommits(n) == [i \in 1..n |-> [sha |-> i]]

AssessCalls ==
    { [fn |-> "_assess_complexity", file_changes |-> fs, commits |-> <<>>] :
        fs \in SeqsUpTo(ChangedFiles, MaxFiles) }
    \cup { [fn |-> "_assess_impact", file_changes |-> NFiles(f), commits |-> NCommits(c)] :
             f \in 0..MaxCount, c \in 0..MaxCount }

InitAssess ==
    /\ assess_call \in AssessCalls
    /\ assess_result = "pending"
    /\ CatIdle /\ ProcIdle /\ FetchIdle /\ HandlerIdle /\ EnrichIdle /\ AppIdle /\ MainIdle

AssessFrame == UNCHANGED <<assess_call, cat_vars, proc_vars, fetch_vars, handler_vars,
                           enrich_vars, app_vars, main_vars>>

AssessComplexity ==
    /\ assess_call.fn = "_assess_complexity" /\ assess_result = "pending"
    /\ assess_result' = _assess_complexity(assess_call.file_changes)
    /\ AssessFrame

AssessImpact ==
    /\ assess_call.fn = "_assess_impact" /\ assess_result = "pending"
    /\ assess_result' = _assess_impact(assess_call.file_changes, assess_call.commits)
    /\ AssessFrame

NextAssess == AssessComplexity \/ AssessImpact
SpecAssess == InitAssess /\ [][NextAssess]_vars

-----------------------------------------------------------------------------
(* app.py: the three handlers.  FastAPI validates the body of a request     *)
(* against its pydantic model before the handler runs, and answers 422 when *)
(* a validator raises.  The handlers call the synchronous ContentProcessor, *)
(* ContentEnricher and ContentGenerator, so a request runs alone from its   *)
(* first step to its response.                                              *)

r_empty   == <<>>
r_noslash == <<"r","e","p","o">>
r_ok      == <<"o","/","r">>
RepoNames == {r_empty, r_noslash, r_ok}

\* app.py 47-51: TRUE when the validator returns v, FALSE when it raises
validate_repo_name(v) == ~(v = <<>> \/ ~Contains(<<"/">>, v))
\* app.py 53-57
validate_days_back(v) == ~(v < 1 \/ v > 30)

\* values on both sides of the two ends of the accepted range
DaysBackValues == {0, 1, 30, 31}

\* content_processor.py 28-43 and content_enricher.py 22-37: the token of the
\* request, else GITHUB_TOKEN of the environment, else ValueError
_get_github_token(req) ==
    IF req.github_token THEN "user_token"
    ELSE IF req.env_GITHUB_TOKEN THEN "default_token"
    ELSE "ValueError"

\* the check is left out
KeyNotChecked(req) == TRUE
\* app.py 139-142 and 189-190: os.getenv('OPENAI_API_KEY') is set and not empty
OpenAIKeyConfigured(req) == req.env_OPENAI_API_KEY

\* What the hosting API does for the repository of a fetch request: it answers,
\* or get_repo raises GithubException with status 404, 401 (the token is
\* rejected) or another status, or reading the pull requests raises.
FetchUpstreams == {"ok", "repo_404", "repo_401", "repo_error", "pulls_error"}

\* The pull requests of the repository: none, or one created inside the window.
AppPulls(d) ==
    { <<>>,
      << [number |-> 1,
          created_at |-> [wall |-> SinceDate(Clock, d).wall + 1, tz |-> "utc"]] >> }

AppRequest(ep, r, d, t, e, k, up, a, c) ==
    [endpoint |-> ep, repo_name |-> r, days_back |-> d, github_token |-> t,
     env_GITHUB_TOKEN |-> e, env_OPENAI_API_KEY |-> k, upstream |-> up,
     answer |-> a, content_ok |-> c]

\* github_token, env_GITHUB_TOKEN, env_OPENAI_API_KEY: the string is present
\* and not blank.  content_ok: every pull request of processed_content has the
\* keys number, title and body that _generate_with_openai reads.
AppRequests ==
    UNION { { AppRequest("fetch", r, d, t, e, TRUE, up, a, TRUE) :
                r \in RepoNames, t \in BOOLEAN, e \in BOOLEAN,
                up \in FetchUpstreams, a \in AppPulls(d) } : d \in DaysBackValues }
    \cup { AppRequest("enrich", r_ok, 1, t, FALSE, k, "ok", <<>>, TRUE) :
             t \in BOOLEAN, k \in BOOLEAN }
    \cup { AppRequest("generate", r_ok, 1, FALSE, FALSE, k, up, <<>>, c) :
             k \in BOOLEAN, up \in {"ok", "ai_fails"}, c \in BOOLEAN }

NoAppResponse == [status |-> 0, body |-> <<>>]
\* raise HTTPException(status_code=code, ...), or the 422 of FastAPI
AppError(code) == [status |-> code, body |-> <<>>]
\* return content
AppOk(content) == [status |-> 200, body |-> content]

InitApp ==
    /\ app_request \in AppRequests
    /\ app_pc = "received"
    /\ app_response = NoAppResponse
    /\ app_calls = <<>>
    /\ IF app_request.endpoint = "enrich"
       THEN /\ selected_items \in SelectedLists
            /\ enrich_pc = "not_called"
            /\ enrich_idx = 1
            /\ enriched_prs = <<>>
            /\ enrich_result = Pending
            /\ enrich_calls = <<>>
       ELSE EnrichIdle
    /\ CatIdle /\ ProcIdle /\ FetchIdle /\ HandlerIdle /\ AssessIdle /\ MainIdle

AppFrame == UNCHANGED <<app_request, cat_vars, proc_vars, fetch_vars, handler_vars,
                        assess_vars, main_vars>>

\* app.py 42-57: GithubContentRequest is built from the body; a ValueError of a
\* validator makes FastAPI answer 422 without calling the handler.  The models
\* of the other two requests have no validator.
RequestValidation ==
    /\ app_pc = "received"
    /\ IF /\ app_request.endpoint = "fetch"
          /\ ~(/\ validate_repo_name(app_request.repo_name)
               /\ validate_days_back(app_request.days_back))
       THEN app_response' = AppError(422) /\ app_pc' = "done"
       ELSE app_pc' = "handler" /\ UNCHANGED app_response
    /\ UNCHANGED <<app_calls, enrich_vars>>
    /\ AppFrame

\* app.py 70-101, content_processor.py 23-26 and 119-131: ContentProcessor(config)
\* reads the token (ValueError -> 400 at line 83; Github(token) sends nothing),
\* then fetch_github_content checks repo_name (ValueError -> 400 at line 119).
AppFetchStart ==
    /\ app_pc = "handler" /\ app_request.endpoint = "fetch"
    /\ IF _get_github_token(app_request) = "ValueError"
       THEN app_response' = AppError(400) /\ app_pc' = "done"
       ELSE IF app_request.repo_name = <<>> \/ ~Contains(<<"/">>, app_request.repo_name)
       THEN app_response' = AppError(400) /\ app_pc' = "done"
       ELSE app_pc' = "get_repo" /\ UNCHANGED app_response
    /\ UNCHANGED <<app_calls, enrich_vars>>
    /\ AppFrame

\* content_processor.py 59-61: of the statuses of a GithubException only 404 has
\* a message of its own; 401 takes line 61 like every other status.
ProcessorCall(req) ==
    Call("fetch_pull_requests", req.days_back,
         IF req.upstream = "repo_401" THEN "repo_error" ELSE req.upstream,
         req.answer)

RepoErrors == {"Repository not found", "Failed to access repository"}

\* content_processor.py 52-61, 138-141, app.py 125-131: self.github.get_repo;
\* its GithubException becomes a plain Exception, fetch_github_content wraps it
\* in another plain Exception, and the handler's `except Exception` answers 500.
AppFetchGetRepo ==
    /\ app_pc = "get_repo"
    /\ app_calls' = Append(app_calls, <<"get_repo", 0>>)
    /\ LET r == fetch_pull_requests(ProcessorCall(app_request))
       IN  IF r.status = "raised" /\ r.value \in RepoErrors
           THEN app_response' = AppError(500) /\ app_pc' = "done"
           ELSE app_pc' = "get_pulls" /\ UNCHANGED app_response
    /\ UNCHANGED enrich_vars
    /\ AppFrame

\* content_processor.py 64-113, 138-141, app.py 103-131: the pull requests are
\* read; a GithubException answers 500 the same way; an empty list is
\* answered with a message, a non-empty one as it is.
AppFetchGetPulls ==
    /\ app_pc = "get_pulls"
    /\ app_calls' = Append(app_calls, <<"get_pulls", 0>>)
    /\ LET r == fetch_pull_requests(ProcessorCall(app_request))
       IN  app_response' = IF r.status = "raised" THEN AppError(500)
                           ELSE AppOk(r.value.items)
    /\ app_pc' = "done"
    /\ UNCHANGED enrich_vars
    /\ AppFrame

\* app.py 135-161 and content_enricher.py 13-20: without OPENAI_API_KEY the
\* handler raises HTTPException(500); else it builds ContentEnricher(config),
\* whose ValueError for a missing token is answered 500 at line 165, and calls
\* enrich_content.
AppEnrichStart ==
    /\ app_pc = "handler" /\ app_request.endpoint = "enrich"
    /\ IF ~OpenAIKeyConfigured(app_request) \/ _get_github_token(app_request) = "ValueError"
       THEN app_response' = AppError(500) /\ app_pc' = "done" /\ UNCHANGED enrich_pc
       ELSE app_pc' = "enriching" /\ enrich_pc' = "start" /\ UNCHANGED app_response
    /\ UNCHANGED <<app_calls, selected_items, enrich_idx, enriched_prs, enrich_result,
                   enrich_calls>>
    /\ AppFrame

\* app.py 163-171: enrich_content has returned or raised
AppEnrichRespond ==
    /\ app_pc = "enriching" /\ enrich_pc = "done"
    /\ app_response' = IF enrich_result.status = "returned"
                       THEN AppOk(enrich_result.value)
                       ELSE AppError(500)
    /\ app_pc' = "done"
    /\ UNCHANGED <<app_calls, enrich_vars>>
    /\ AppFrame

\* app.py 185-197 and content_generator.py 19-20
AppGenerateStart ==
    /\ app_pc = "handler" /\ app_request.endpoint = "generate"
    /\ IF ~OpenAIKeyConfigured(app_request)
       THEN app_response' = AppError(500) /\ app_pc' = "done"
       ELSE app_pc' = "generating" /\ UNCHANGED app_response
    /\ UNCHANGED <<app_calls, enrich_vars>>
    /\ AppFrame

\* app.py 199-212 and content_generator.py 22-86: the prompt is built (KeyError
\* when a pull request lacks number, title or body), then one
\* chat.completions.create; every exception is re-raised and answered 500.
AppGenerate ==
    /\ app_pc = "generating"
    /\ IF ~app_request.content_ok
       THEN app_response' = AppError(500) /\ UNCHANGED app_calls
       ELSE /\ app_calls' = Append(app_calls, <<"chat.completions.create", 0>>)
            /\ app_response' = IF app_request.upstream = "ok"
                               THEN AppOk(<<"generated">>)
                               ELSE AppError(500)
    /\ app_pc' = "done"
    /\ UNCHANGED enrich_vars
    /\ AppFrame

NextApp ==
    \/ RequestValidation
    \/ AppFetchStart
    \/ AppFetchGetRepo
    \/ AppFetchGetPulls
    \/ AppEnrichStart
    \/ NextEnrich
    \/ AppEnrichRespond
    \/ AppGenerateStart
    \/ AppGenerate
SpecApp == InitApp /\ [][NextApp]_vars

-----------------------------------------------------------------------------
(* main.py, POST /api/enrich-content and POST /api/generate-content.  Each  *)
(* handler is one try block whose `except Exception` answers 500; FastAPI   *)
(* answers 422 without calling the handler when the body lacks a field the  *)
(* request model requires.                                                  *)

MaxMainItems == 1     \* selected items of an enrich-content request of main.py

\* A Python signature: the parameter names after self, in order, and how many
\* of them (the leading ones) have no default.
Signature(params, required) == [params |-> params, required |-> required]
\* A call: the number of positional arguments and the names of the keyword ones.
CallSite(positional, keywords) == [positional |-> positional, keywords |-> keywords]

\* every call is accepted
BindsAnything(sig, call) == TRUE
\* Python binds the arguments of a call to the parameters; FALSE is TypeError:
\* too many positional arguments, a keyword that names no parameter (or one
\* already given by position), or a parameter without default left unbound.
Binds(sig, call) ==
    /\ call.positional <= Len(sig.params)
    /\ \A k \in call.keywords :
           \E i \in (call.positional + 1)..Len(sig.params) : sig.params[i] = k
    /\ \A i \in (call.positional + 1)..sig.required : sig.params[i] \in call.keywords

\* content_enricher.py 13: def __init__(self, config=None)
ContentEnricher_init == Signature(<<"config">>, 0)
\* content_enricher.py 42: def enrich_content(self, repo_name, selected_items)
ContentEnricher_enrich_content == Signature(<<"repo_name", "selected_items">>, 2)
\* content_generator.py 19: def __init__(self, openai_api_key)
ContentGenerator_init == Signature(<<"openai_api_key">>, 1)
\* content_generator.py 22: def generate_content(self, content, content_type)
ContentGenerator_generate_content == Signature(<<"content", "content_type">>, 2)

\* main.py 87: ContentEnricher(github_token=request.github_token)
MainBuildsEnricher == CallSite(0, {"github_token"})
\* main.py 88-91: enricher.enrich_content(items=..., repo_name=...)
MainCallsEnrichContent == CallSite(0, {"items", "repo_name"})
\* main.py 108: ContentGenerator()
MainBuildsGenerator == CallSite(0, {})
\* main.py 117-120: generator.generate_content(content_to_process, content_type=...)
MainCallsGenerateContent == CallSite(1, {"content_type"})

\* main.py 34-37 and 29-32: the fields of the two request models; those
\* without a default are required.
EnrichmentFields == {"repo_name", "selected_items", "github_token"}
GenerationFields == {"processed_content", "content_type", "selected_categories"}
RequiredFields(endpoint) ==
    IF endpoint = "enrich" THEN EnrichmentFields
    ELSE {"processed_content", "content_type"}

MainSelectedLists == { q \in SelectedLists : Len(q) <= MaxMainItems }

\* fields: the fields the body holds.  env_*: the variable is set and not
\* blank.  upstream: what the hosting API (enrich) or the generative service
\* (generate) would do.  content_ok: as in the requests of app.py.
MainRequests ==
    { [endpoint |-> "enrich", fields |-> f, env_GITHUB_TOKEN |-> e,
       env_OPENAI_API_KEY |-> k, upstream |-> up, content_ok |-> TRUE,
       selected_items |-> q] :
        f \in SUBSET EnrichmentFields, e \in BOOLEAN, k \in BOOLEAN,
        up \in {"ok", "repo_error"}, q \in MainSelectedLists }
    \cup { [endpoint |-> "generate", fields |-> f, env_GITHUB_TOKEN |-> FALSE,
            env_OPENAI_API_KEY |-> k, upstream |-> up, content_ok |-> c,
            selected_items |-> <<>>] :
             f \in SUBSET GenerationFields, k \in BOOLEAN,
             up \in {"ok", "ai_fails"}, c \in BOOLEAN }

\* content_enricher.py 53-97 as a whole: the entries built and the calls issued
\* for a list of selected items.
RECURSIVE EnrichAll(_, _)
EnrichAll(items, acc) ==
    IF items = <<>> THEN acc
    ELSE LET r == EnrichOne(Head(items))
         IN  EnrichAll(Tail(items), [entries |-> acc.entries \o r.entries,
                                     calls   |-> acc.calls \o r.calls])

InitMain ==
    /\ main_request \in MainRequests
    /\ main_pc = "received"
    /\ main_response = NoAppResponse
    /\ main_calls = <<>>
    /\ CatIdle /\ ProcIdle /\ FetchIdle /\ HandlerIdle /\ EnrichIdle /\ AssessIdle /\ AppIdle

MainFrame == UNCHANGED <<main_request, cat_vars, proc_vars, fetch_vars, handler_vars,
                         enrich_vars, assess_vars, app_vars>>

\* main.py 29-37: the body is read into the request model
MainRequestValidation ==
    /\ main_pc = "received"
    /\ IF RequiredFields(main_request.endpoint) \subseteq main_request.fields
       THEN main_pc' = "handler" /\ UNCHANGED main_response
       ELSE main_response' = AppError(422) /\ main_pc' = "done"
    /\ UNCHANGED main_calls
    /\ MainFrame

\* main.py 85-103: the constructor call (TypeError when it does not bind; with
\* no config the token is GITHUB_TOKEN of the environment, ValueError without
\* it), the call of enrich_content (TypeError when it does not bind), which
\* looks the repository up and enriches the items; every exception is
\* answered 500 at line 102.
MainEnrich ==
    /\ main_pc = "handler" /\ main_request.endpoint = "enrich"
    /\ IF \/ ~Binds(ContentEnricher_init, MainBuildsEnricher)
          \/ ~main_request.env_GITHUB_TOKEN
          \/ ~Binds(ContentEnricher_enrich_content, MainCallsEnrichContent)
       THEN main_response' = AppError(500) /\ UNCHANGED main_calls
       ELSE IF main_request.upstream # "ok"
       THEN /\ main_calls' = << <<"get_repo", 0>> >>
            /\ main_response' = AppError(500)
       ELSE LET r == EnrichAll(main_request.selected_items,
                               [entries |-> <<>>, calls |-> <<>>])
            IN  /\ main_calls' = << <<"get_repo", 0>> >> \o r.calls
                /\ main_response' = AppOk(r.entries)
    /\ main_pc' = "done"
    /\ MainFrame

\* main.py 106-139: the constructor call, the call of generate_content, which
\* builds the prompt (KeyError when a pull request lacks a key) and calls
\* chat.completions.create once; every exception is answered 500 at line 136.
MainGenerate ==
    /\ main_pc = "handler" /\ main_request.endpoint = "generate"
    /\ IF \/ ~Binds(ContentGenerator_init, MainBuildsGenerator)
          \/ ~Binds(ContentGenerator_generate_content, MainCallsGenerateContent)
          \/ ~main_request.content_ok
       THEN main_response' = AppError(500) /\ UNCHANGED main_calls
       ELSE /\ main_calls' = << <<"chat.completions.create", 0>> >>
            /\ main_response' = IF main_request.upstream = "ok"
                                THEN AppOk(<<"generated">>)
                                ELSE AppError(500)
    /\ main_pc' = "done"
    /\ MainFrame

NextMain == MainRequestValidation \/ MainEnrich \/ MainGenerate
SpecMain == InitMain /\ [][NextMain]_vars

-----------------------------------------------------------------------------
(* Properties of the categorizer, under SpecCategorize. *)

Categorized == category \in Categories

\* The item's fields as _categorize_item reads them (defaults applied, lowered).
TitleOf(it)  == Lower(Get(it.title, <<>>).val)
BodyOf(it)   == Lower(Get(it.body, <<>>).val)
LabelsOf(it) == LET ls == Get(it.labels, <<>>).val
                IN  [j \in 1..Len(ls) |-> Lower(ls[j])]

RuleOrder == <<"documentation", "bug_fixes", "features", "code_changes">>
RuleFires(r, it) ==
    CASE r = "documentation" -> DocRule(TitleOf(it), BodyOf(it), LabelsOf(it))
      [] r = "bug_fixes"     -> BugRule(TitleOf(it), BodyOf(it), LabelsOf(it))
      [] r = "features"      -> FeatRule(TitleOf(it), BodyOf(it), LabelsOf(it))
      [] r = "code_changes"  -> CodeRule(TitleOf(it), BodyOf(it), LabelsOf(it))
Fired(it) == {i \in 1..Len(RuleOrder) : RuleFires(RuleOrder[i], it)}

\* C1: the category returned is that of the first rule, in the order
\* documentation, bug_fixes, features, code_changes, that matches the item, and
\* it is other exactly when no rule matches; an item whose labels hold both a
\* bug label and a feature label, with no keyword in title or body, is bug_fixes.
C1_FirstMatchWins ==
    Categorized =>
        /\ IF Fired(item) = {}
           THEN category = "other"
           ELSE \E i \in Fired(item) :
                    /\ \A j \in Fired(item) : i <= j
                    /\ category = RuleOrder[i]
        /\ (/\ TitleOf(item) = <<>> /\ BodyOf(item) = <<>>
            /\ InList(kw_bug, LabelsOf(item))
            /\ InList(kw_feature, LabelsOf(item))) => category = "bug_fixes"

C1_Witness ==
    /\ item.labels = Val(<<l_bug, l_Feature>>)
    /\ TitleOf(item) = <<>> /\ BodyOf(item) = <<>>
    /\ category = "bug_fixes"

\* What a rule may consult, stated apart from the rules themselves.
TextHas(K, it) ==
    \E kw \in K : Contains(kw, TitleOf(it)) \/ Contains(kw, BodyOf(it))
LabelIs(K, it) ==
    \E kw \in K : \E j \in 1..Len(LabelsOf(it)) : LabelsOf(it)[j] = kw
LabelHas(K, it) ==
    \E kw \in K : \E j \in 1..Len(LabelsOf(it)) : Contains(kw, LabelsOf(it)[j])

\* The item of C2: title 'Bug fix', labels ['documentation'], and a body (or no
\* body) without a documentation keyword.
C2_Item(it) ==
    /\ it.title = Val(w_Bug \o w_fix)
    /\ it.labels = Val(<<l_documentation>>)
    /\ it.body.tag # "null"
    /\ ~TextHas(DocKeywords, it)

\* C2 as stated: that item is categorized documentation.
C2_Original == (Categorized /\ C2_Item(item)) => category = "documentation"

\* C2 as amended: title 'Bug fix' with labels ['documentation'] and no
\* documentation keyword in title or body is categorized bug_fixes, because the
\* documentation rule reads only title and body, never the labels.
C2_BugFixNotDocumentation ==
    (category # "pending" /\ C2_Item(item)) => category = "bug_fixes"

C2_Witness == C2_Item(item) /\ category = "bug_fixes"

\* An item as the fetchers hand it to the aggregator: a pull request or issue of
\* GitHubCollector (title a string, body a string or null, no labels key), a
\* pull request of ContentProcessor.fetch_pull_requests (title, body, labels),
\* or a commit (no title, body or labels key).
FromFetcher(it) ==
    \/ it.title.tag = "value" /\ it.body.tag \in {"value", "null"} /\ it.labels.tag = "absent"
    \/ it.title.tag = "value" /\ it.body.tag = "value" /\ it.labels.tag = "value"
    \/ it.title.tag = "absent" /\ it.body.tag = "absent" /\ it.labels.tag = "absent"

\* C3: for every item the fetchers can produce, _categorize_item returns one of
\* the five categories and does not raise.
C3_Total == (category # "pending" /\ FromFetcher(item)) => category \in Categories

\* C4 as stated: every rule matches a keyword anywhere inside title, body and,
\* for the bug_fixes and features rules, inside each label.
C4_Original ==
    Categorized =>
        category =
            IF TextHas(DocKeywords, item) THEN "documentation"
            ELSE IF TextHas(BugKeywords, item) \/ LabelHas(BugKeywords, item)
                 THEN "bug_fixes"
            ELSE IF TextHas(FeatKeywords, item) \/ LabelHas(FeatKeywords, item)
                 THEN "features"
            ELSE IF TextHas(CodeKeywords, item) THEN "code_changes"
            ELSE "other"

\* C4 as amended: in title and body a keyword matches as a substring; a label
\* matches only when the whole lowered label equals the keyword.  So a category
\* is returned only when its keyword occurs in title or body or is a whole
\* label, a feature keyword inside title or body gives features when no earlier
\* rule matches, and a label that merely contains 'feat' matches nothing.
C4_SubstringInTextWholeLabel ==
    Categorized =>
        /\ category = "documentation" => TextHas(DocKeywords, item)
        /\ category = "bug_fixes" =>
               TextHas(BugKeywords, item) \/ LabelIs(BugKeywords, item)
        /\ category = "features" =>
               TextHas(FeatKeywords, item) \/ LabelIs(FeatKeywords, item)
        /\ category = "code_changes" => TextHas(CodeKeywords, item)
        /\ category = "other" =>
               /\ ~TextHas(DocKeywords \cup BugKeywords \cup FeatKeywords \cup CodeKeywords, item)
               /\ ~LabelIs(BugKeywords \cup FeatKeywords, item)
        /\ (/\ TextHas(FeatKeywords, item)
            /\ ~TextHas(DocKeywords \cup BugKeywords, item)
            /\ ~LabelIs(BugKeywords, item)) => category = "features"

C4_Witness ==
    /\ item.title = Val(w_defeature \o w_oldAPI)
    /\ item.labels = Val(<<l_newfeature>>)
    /\ category = "features"

-----------------------------------------------------------------------------
(* Properties of the aggregator, under SpecProcess. *)

RECURSIVE IsSubseq(_, _)
IsSubseq(a, b) ==
    IF a = <<>> THEN TRUE
    ELSE IF b = <<>> THEN FALSE
    ELSE IF Head(a) = Head(b) THEN IsSubseq(Tail(a), Tail(b))
    ELSE IsSubseq(a, Tail(b))

\* The records process is to append, in the order pulls, issues, commits.
ExpectedRecords(data) ==
    [i \in 1..Len(data.pulls) |-> ItemData("pull_request", data.pulls[i])]
    \o [i \in 1..Len(data.issues) |-> ItemData("issue", data.issues[i])]
    \o [i \in 1..Len(data.commits) |-> ItemData("commit", data.commits[i])]

RECURSIVE SumLen(_, _)
SumLen(f, S) ==
    IF S = {} THEN 0
    ELSE LET c == CHOOSE x \in S : TRUE IN Len(f[c]) + SumLen(f, S \ {c})

Aggregated(data, out) ==
    /\ DOMAIN out = Categories
    /\ SumLen(out, Categories) =
           Len(data.pulls) + Len(data.issues) + Len(data.commits)
    /\ \A c \in Categories : IsSubseq(out[c], ExpectedRecords(data))
    /\ \A i \in 1..Len(ExpectedRecords(data)) :
           \E c \in Categories : \E j \in 1..Len(out[c]) :
               out[c][j] = ExpectedRecords(data)[i]

\* C5: for any input lists, process returns a mapping with the five category
\* keys whose lists hold exactly one record per input item, each list a
\* subsequence of pulls, then issues, then commits.
C5_Aggregation ==
    processed_content.status # "pending" =>
        /\ processed_content.status = "returned"
        /\ Aggregated(activity_data, processed_content.value)

\* The same for the inputs on which no categorization raises.
C5_AggregationWhenReturned ==
    processed_content.status = "returned" =>
        Aggregated(activity_data, processed_content.value)

\* The records of type 'commit' in a category list, in order.
IsCommitRecord(rec) == rec.type = "commit"
CommitsOf(list) == SelectSeq(list, IsCommitRecord)

\* C20: when process returns, every commit record of the input is in the
\* 'other' list, in input order, and no other category holds a commit record,
\* whatever the commit messages say.
C20_CommitsAreOther ==
    processed_content.status = "returned" =>
        /\ CommitsOf(processed_content.value["other"]) =
               [i \in 1..Len(activity_data.commits) |->
                    ItemData("commit", activity_data.commits[i])]
        /\ \A c \in Categories \ {"other"} :
               CommitsOf(processed_content.value[c]) = <<>>

\* A commit whose message is "fix docs" lands in 'other', while a pull request
\* of the same input is categorized as a bug fix.
C20_Witness ==
    /\ processed_content.status = "returned"
    /\ \E i \in 1..Len(activity_data.commits) :
           /\ activity_data.commits[i].message = Val(m_fixdocs)
           /\ \E j \in 1..Len(processed_content.value["other"]) :
                  processed_content.value["other"][j] =
                      ItemData("commit", activity_data.commits[i])
    /\ Len(processed_content.value["bug_fixes"]) > 0

-----------------------------------------------------------------------------
(* Properties of the fetches, under SpecFetch. *)

FetchReturned == fetch_result.status = "returned"
Since == SinceDate(fetch_call.now, fetch_call.days_back).wall
ResultItems == fetch_result.value.items
PullFetchers == {"async_fetch_pulls", "fetch_pull_requests"}

\* The answer's i-th item is in the result (items are numbered by position).
Kept(i) ==
    \E j \in 1..Len(ResultItems) :
        IF fetch_call.fn = "async_fetch_commits"
        THEN ResultItems[j].sha = i
        ELSE ResultItems[j].number = i

\* The creation instant of the answer's i-th item, read as UTC.
CreatedWall(i) ==
    IF fetch_call.fn = "async_fetch_commits"
    THEN fetch_call.answer[i].date.wall
    ELSE fetch_call.answer[i].created_at.wall

\* The items of the one page the request asks for (per_page = max_items); the
\* paginated list of fetch_pull_requests is read to its end.
OnPage(i) == fetch_call.fn = "fetch_pull_requests" \/ i <= max_items

\* C6: the lookback bound is inclusive in both pull-request fetches: a pull
\* request created exactly at now - days_back is in the result, one created a
\* second earlier (or before) is not, and a creation time without a timezone
\* is compared as UTC.
C6_InclusiveBound ==
    (FetchReturned /\ fetch_call.fn \in PullFetchers) =>
        \A i \in 1..Len(fetch_call.answer) :
            /\ Kept(i) => CreatedWall(i) >= Since
            /\ (OnPage(i) /\ CreatedWall(i) >= Since) => Kept(i)

C6_Witness ==
    /\ FetchReturned /\ fetch_call.fn = "fetch_pull_requests"
    /\ \E i, j \in 1..Len(fetch_call.answer) :
          /\ fetch_call.answer[i].created_at = [wall |-> Since, tz |-> "naive"]
          /\ Kept(i)
          /\ CreatedWall(j) = Since - 1
          /\ ~Kept(j)

\* C7: every item a fetch of any of the three kinds returns was created at or
\* after now - days_back.
C7_NothingOlderThanWindow ==
    FetchReturned =>
        \A j \in 1..Len(ResultItems) : ResultItems[j].created_at.wall >= Since

\* C8: no fetch returns more than max_items (30) items, the pull-request list
\* of ContentProcessor.fetch_pull_requests included.
C8_CapOnEveryFetch == FetchReturned => Len(ResultItems) <= max_items

\* The cap as the collector keeps it.
C8_CapOnCollector ==
    (FetchReturned /\ fetch_call.fn # "fetch_pull_requests") =>
        Len(ResultItems) <= max_items

\* The answer's i-th pull request is older than the lookback boundary.
Older(i) == CreatedWall(i) < Since

\* The pull requests inside the window among the first i of the answer.
CollectedUpTo(i) == Cardinality({ j \in 1..i : ~Older(j) })

\* At the i-th item a stop condition is met: the item is older than the
\* boundary, or it is the max_items-th item collected.
StopConditionAt(i) == Older(i) \/ CollectedUpTo(i) >= max_items

\* The first position at which a stop condition is met, the end of the answer
\* when there is none.
StopPoint ==
    IF \E i \in 1..Len(fetch_call.answer) : StopConditionAt(i)
    THEN CHOOSE i \in 1..Len(fetch_call.answer) :
             /\ StopConditionAt(i)
             /\ \A j \in 1..(i - 1) : ~StopConditionAt(j)
    ELSE Len(fetch_call.answer)

\* C19: a pull-request fetch stops examining upstream items as soon as an item
\* older than the lookback boundary is met or max_items (30) items are
\* collected, whichever comes first; no item after that point is examined or
\* returned.
C19_StopsAtOldItemOrCap ==
    (FetchReturned /\ fetch_call.fn \in PullFetchers) =>
        /\ fetch_result.value.examined = StopPoint
        /\ \A i \in 1..Len(fetch_call.answer) : Kept(i) => i <= StopPoint

\* What each of the two fetches does: the collector stops at the cap only,
\* the processor at the first older item only.
CollectorStopsAtCapOnly ==
    (FetchReturned /\ fetch_call.fn = "async_fetch_pulls") =>
        fetch_result.value.examined =
            IF \E i \in 1..Len(fetch_call.answer) : CollectedUpTo(i) >= max_items
            THEN CHOOSE i \in 1..Len(fetch_call.answer) :
                     CollectedUpTo(i) = max_items /\ ~Older(i)
            ELSE Len(fetch_call.answer)

ProcessorStopsAtOldItemOnly ==
    (FetchReturned /\ fetch_call.fn = "fetch_pull_requests") =>
        fetch_result.value.examined =
            IF \E i \in 1..Len(fetch_call.answer) : Older(i)
            THEN CHOOSE i \in 1..Len(fetch_call.answer) :
                     Older(i) /\ \A j \in 1..(i - 1) : ~Older(j)
            ELSE Len(fetch_call.answer)

-----------------------------------------------------------------------------
(* Properties of the fetch handler of main.py, under SpecHandler. *)

Issued == \A k \in FetchTasks : task_pc[k] # "none"
Completed(k) == task_pc[k] \in {"done", "failed"}
Responded == response.status # 0

\* C9 as stated: once the three fetches are issued, the handler produces no
\* response and starts no aggregation until all three have completed; if one
\* fails the request fails and nothing built from the others is returned.
C9_Original ==
    /\ (Issued /\ (Responded \/ response.aggregated)) =>
           \A k \in FetchTasks : Completed(k)
    /\ (Responded /\ SomeFailed(task_pc)) =>
           response.status = 500 /\ response.results = {}

\* C9 as amended: the three fetches run concurrently; a success response and
\* the aggregation come only after all three have returned, and the response
\* then holds all three results; when a fetch fails the handler answers 500
\* with nothing built from the other fetches, and it does so as soon as the
\* failure is propagated, without waiting for the fetches still running.
C9_FanIn ==
    /\ (\E k \in FetchTasks : task_pc[k] # "none") => Issued
    /\ (response.status = 200 \/ response.aggregated) =>
           /\ \A k \in FetchTasks : task_pc[k] = "done"
           /\ response.status = 200 => response.results = FetchTasks
    /\ (Responded /\ SomeFailed(task_pc)) =>
           response.status = 500 /\ response.results = {} /\ ~response.aggregated
    /\ (Responded /\ response.status # 200) => response.results = {}

C9_Witness ==
    /\ response.status = 200
    /\ response.results = FetchTasks
    /\ \A k \in FetchTasks : task_pc[k] = "done"

\* The fetch handler of main.py has no check of repo_name or days_back
\* (main.py 24-27, 41-46): with REPO_NAME in the environment a request with an
\* empty repo_name starts its three fetches (the formula below is violated).
MainNeverFetchesEmptyRepoName ==
    ~handler_env.repo_name => \A k \in FetchTasks : task_pc[k] = "none"

\* A fetch task sends its request once: it is created once and leaves
\* "created" once (github_collector.py 39, 71, 96).
FetchTasksIssuedOnce ==
    [][\A k \in FetchTasks :
          /\ task_pc'[k] = "created" => task_pc[k] \in {"none", "created"}
          /\ (task_pc'[k] = "awaiting_response" /\ task_pc[k] # "awaiting_response")
                 => task_pc[k] = "created"]_vars

-----------------------------------------------------------------------------
(* Properties of enrich_content, under SpecEnrich. *)

\* The hosting API answers the pull, files and commits requests of the item.
DetailFetchSucceeds(it) ==
    /\ it.number.tag = "value"
    /\ it.upstream \in {"ok", "ai_fails"}

RECURSIVE EnrichableNumbers(_)
EnrichableNumbers(items) ==
    IF items = <<>> THEN <<>>
    ELSE (IF Head(items).type = "pull_request" /\ DetailFetchSucceeds(Head(items))
          THEN <<Head(items).number.val>> ELSE <<>>)
         \o EnrichableNumbers(Tail(items))

RepoLookupSucceeded ==
    enrich_pc = "loop" \/ (enrich_pc = "done" /\ enrich_result.status = "returned")

\* C10: when the repository lookup succeeds, enrich_content returns (it does
\* not raise) exactly one entry for each selected item of type 'pull_request'
\* whose detail fetch succeeds, in the order selected; items of another type
\* and items whose processing raises are skipped, and the items after them are
\* still processed.
C10_SkipAndContinue ==
    /\ (enrich_pc = "done" /\ Len(enrich_calls) > 0 /\ enrich_result.status = "raised")
           => enrich_calls = << <<"get_repo", 0>> >>
    /\ (enrich_pc = "done" /\ enrich_result.status = "returned") =>
           /\ [j \in 1..Len(enrich_result.value) |-> enrich_result.value[j].number]
                  = EnrichableNumbers(selected_items)
           /\ enrich_idx = Len(selected_items) + 1
    /\ enrich_pc = "loop" =>
           /\ enrich_idx \in 1..(Len(selected_items) + 1)
           /\ [j \in 1..Len(enriched_prs) |-> enriched_prs[j].number]
                  = EnrichableNumbers(SubSeq(selected_items, 1, enrich_idx - 1))

\* [validPR, itemCausingUpstreamError, validPR]: two entries, none for the
\* failing item, and the item after it is processed.
C10_Witness ==
    /\ enrich_pc = "done" /\ enrich_result.status = "returned"
    /\ Len(selected_items) = 3
    /\ selected_items[1].upstream = "ok" /\ selected_items[1].type = "pull_request"
    /\ selected_items[1].number.tag = "value"
    /\ selected_items[2].upstream = "get_pull_fails"
    /\ selected_items[3] = [selected_items[1] EXCEPT !.number = Val(3)]
    /\ Len(enrich_result.value) = 2
    /\ enrich_result.value[2].number = 3

\* The generative-service call of the item fails (its detail fetches succeed).
AiFails(it) ==
    /\ it.type = "pull_request"
    /\ it.number.tag = "value"
    /\ it.upstream = "ai_fails"

AiFailedAnalysis ==
    [summary |-> "AI analysis failed", complexity |-> "Unknown", impact |-> "Unknown"]

\* The entries built for the pull request numbered n.
EntriesOf(n, entries) == { j \in 1..Len(entries) : entries[j].number = n }

\* Exactly one entry for n, and its analysis is the three placeholders.
PlaceholderEntry(n, entries) ==
    /\ Cardinality(EntriesOf(n, entries)) = 1
    /\ \A j \in EntriesOf(n, entries) : entries[j].analysis = AiFailedAnalysis

AiCallIssued ==
    \E c \in 1..Len(enrich_calls) : enrich_calls[c][1] = "chat.completions.create"

\* C11: when the generative-service call fails for a pull request, the pull
\* request is still in the result, once, with analysis exactly summary
\* 'AI analysis failed', complexity 'Unknown', impact 'Unknown'; the failure
\* does not drop the item and does not make enrich_content raise.
C11_PlaceholderOnAiFailure ==
    /\ enrich_pc = "loop" =>
           \A i \in 1..(enrich_idx - 1) :
               AiFails(selected_items[i]) => PlaceholderEntry(i, enriched_prs)
    /\ (enrich_pc = "done" /\ AiCallIssued) =>
           /\ enrich_result.status = "returned"
           /\ \A i \in 1..Len(selected_items) :
                  AiFails(selected_items[i]) => PlaceholderEntry(i, enrich_result.value)

\* [PR whose generative call fails, PR whose call succeeds]: both are returned,
\* the first with the placeholders, the second with a generated summary.
C11_Witness ==
    /\ enrich_pc = "done" /\ enrich_result.status = "returned"
    /\ Len(selected_items) = 2
    /\ AiFails(selected_items[1])
    /\ selected_items[2].upstream = "ok"
    /\ Len(enrich_result.value) = 2
    /\ enrich_result.value[1].analysis = AiFailedAnalysis
    /\ enrich_result.value[2].analysis.summary = "generated"

-----------------------------------------------------------------------------
(* Properties of the two tier functions, under SpecAssess. *)

\* Added plus removed lines over the first n files of the list.
RECURSIVE LinesChanged(_, _)
LinesChanged(files, n) ==
    IF n = 0 THEN 0
    ELSE files[n].additions + files[n].deletions + LinesChanged(files, n - 1)

ComplexityAssessed == assess_call.fn = "_assess_complexity" /\ assess_result # "pending"
ImpactAssessed     == assess_call.fn = "_assess_impact" /\ assess_result # "pending"

\* C12: _assess_complexity returns Low when the added plus removed lines over
\* all files total less than 50, Medium from 50 to 199, High from 200 on.
C12_ComplexityTiers ==
    ComplexityAssessed =>
        LET total == LinesChanged(assess_call.file_changes, Len(assess_call.file_changes))
        IN  /\ total < 50 => assess_result = "Low"
            /\ (total >= 50 /\ total < 200) => assess_result = "Medium"
            /\ total >= 200 => assess_result = "High"
            /\ total = 49 => assess_result = "Low"
            /\ total \in {50, 199} => assess_result = "Medium"
            /\ total = 200 => assess_result = "High"

\* Two files of 199 and 1 changed lines: the total is 200, the tier High.
C12_Witness ==
    /\ ComplexityAssessed
    /\ Len(assess_call.file_changes) = 2
    /\ LinesChanged(assess_call.file_changes, 1) = 199
    /\ LinesChanged(assess_call.file_changes, 2) = 200
    /\ assess_result = "High"

\* C13: _assess_impact returns Low when the file count and the commit count
\* are both below 3, Medium when both are below 10 but not both below 3, and
\* High otherwise.
C13_ImpactTiers ==
    ImpactAssessed =>
        LET files   == Len(assess_call.file_changes)
            commits == Len(assess_call.commits)
        IN  /\ (files < 3 /\ commits < 3) => assess_result = "Low"
            /\ (files < 10 /\ commits < 10 /\ ~(files < 3 /\ commits < 3))
                   => assess_result = "Medium"
            /\ (files >= 10 \/ commits >= 10) => assess_result = "High"
            /\ (files = 2 /\ commits = 2) => assess_result = "Low"
            /\ (files = 9 /\ commits = 9) => assess_result = "Medium"
            /\ (files = 10 /\ commits = 1) => assess_result = "High"

\* Ten files and one commit: High, though the commit count alone is Low.
C13_Witness ==
    /\ ImpactAssessed
    /\ Len(assess_call.file_changes) = 10
    /\ Len(assess_call.commits) = 1
    /\ assess_result = "High"

-----------------------------------------------------------------------------
(* Properties of the handlers of app.py, under SpecApp. *)

AppResponded == app_response.status # 0
IsFetch      == app_request.endpoint = "fetch"
Called(c)    == \E i \in 1..Len(app_calls) : app_calls[i] = c

\* repo_name has the form owner/repo and days_back is in 1..30
WellFormed ==
    /\ app_request.repo_name # <<>>
    /\ Contains(<<"/">>, app_request.repo_name)
    /\ app_request.days_back \in 1..30

\* neither the payload nor the environment holds a token
NoToken == ~app_request.github_token /\ ~app_request.env_GITHUB_TOKEN

\* The upstream calls of the request, those of enrich_content included.
UpstreamCalls ==
    app_calls \o (IF app_request.endpoint = "enrich" THEN enrich_calls ELSE <<>>)

\* C14: when the hosting API reports that the repository does not exist (404)
\* during a fetch-github-content request, the handler answers 400, not 500.
C14_NotFoundAnswers400 ==
    (/\ IsFetch /\ AppResponded
     /\ app_request.upstream = "repo_404"
     /\ Called(<<"get_repo", 0>>))
        => app_response.status = 400

\* C15: a fetch-github-content request whose repo_name is empty or has no '/',
\* or whose days_back is outside 1..30, is rejected with status 400, and no
\* call to the hosting API is made for it.
C15_MalformedAnswers400 ==
    (IsFetch /\ ~WellFormed) =>
        /\ app_calls = <<>>
        /\ AppResponded => app_response.status = 400

\* What does hold in app.py: such a request never reaches the hosting API.
MalformedNeverFetched == (IsFetch /\ ~WellFormed) => app_calls = <<>>

\* C16: a fetch-github-content request that fails for a credential reason
\* answers 401, both when neither the payload nor the environment holds a token
\* and when the hosting API rejects the token.
C16_CredentialFailureAnswers401 ==
    (/\ IsFetch /\ AppResponded /\ WellFormed
     /\ \/ NoToken
        \/ app_request.upstream = "repo_401" /\ Called(<<"get_repo", 0>>))
        => app_response.status = 401

\* No request is answered 401: the clause of app.py 86-92 needs an exception
\* of ContentProcessor(config) that is no ValueError, and there is none.
FetchNeverAnswers401 == app_response.status # 401

\* C17: without OPENAI_API_KEY in the environment the enrich-content and the
\* generate-content handlers of app.py answer 500, and no call to the hosting
\* API or to the generative service is made before (or after) that answer.
C17_MissingKeyAnswers500 ==
    (/\ app_request.endpoint \in {"enrich", "generate"}
     /\ ~app_request.env_OPENAI_API_KEY)
        => /\ UpstreamCalls = <<>>
           /\ AppResponded => app_response.status = 500
           /\ app_pc \in {"received", "handler", "done"}

\* An enrich-content request with a token and one pull request selected,
\* answered 500 with no upstream call made.
C17_Witness ==
    /\ app_request.endpoint = "enrich"
    /\ ~app_request.env_OPENAI_API_KEY
    /\ app_request.github_token
    /\ Len(selected_items) = 1
    /\ selected_items[1].type = "pull_request" /\ selected_items[1].upstream = "ok"
    /\ app_response = AppError(500)
    /\ UpstreamCalls = <<>>
    /\ enrich_pc = "not_called"

NoRepeat(calls) ==
    \A i, j \in 1..Len(calls) : calls[i] = calls[j] => i = j

\* C18: no upstream call is retried: within one request the repository
\* lookup, each per-item pull / files / commits fetch and each call of the
\* generative service is issued at most once, also after it has failed.
C18_NoRetry == NoRepeat(UpstreamCalls)

\* An enrich-content request answered 200 after the pull fetch of its first
\* item and the generative call of its second item have failed: each of the
\* failed calls was issued once.
C18_Witness ==
    /\ app_request.endpoint = "enrich"
    /\ app_response.status = 200
    /\ Len(selected_items) = 3
    /\ selected_items[1].type = "pull_request" /\ selected_items[1].number.tag = "value"
    /\ selected_items[1].upstream = "get_pull_fails"
    /\ AiFails(selected_items[2])
    /\ selected_items[3].type = "pull_request" /\ selected_items[3].upstream = "ok"
    /\ Cardinality({i \in 1..Len(enrich_calls) : enrich_calls[i] = <<"get_pull", 1>>}) = 1
    /\ Cardinality({i \in 1..Len(enrich_calls) :
                       enrich_calls[i] = <<"chat.completions.create", 2>>}) = 1
    /\ Len(enrich_calls) = 10

-----------------------------------------------------------------------------
(* Properties of the enrich and generate handlers of main.py, under SpecMain. *)

MainResponded == main_response.status # 0
BodyAccepted  == RequiredFields(main_request.endpoint) \subseteq main_request.fields

\* C21 as stated: every request to the two handlers, whatever its body, ends
\* with status 500, and no upstream call is made for it.
C21_Original ==
    /\ main_calls = <<>>
    /\ MainResponded => main_response.status = 500

\* C21 as amended: every request whose body the request model accepts ends
\* with status 500 and no upstream call is made for it, because the calls of
\* the constructors and of enrich_content do not bind; a body that lacks a
\* required field is answered 422 before the handler runs, also with no
\* upstream call.
C21_HandlersAnswer500 ==
    /\ main_calls = <<>>
    /\ MainResponded =>
           main_response.status = IF BodyAccepted THEN 500 ELSE 422

\* The three calls the claim names raise TypeError; the call of
\* generate_content would bind.
MainCallsDoNotBind ==
    /\ ~Binds(ContentEnricher_init, MainBuildsEnricher)
    /\ ~Binds(ContentEnricher_enrich_content, MainCallsEnrichContent)
    /\ ~Binds(ContentGenerator_init, MainBuildsGenerator)
    /\ Binds(ContentGenerator_generate_content, MainCallsGenerateContent)

\* An enrich-content request with every field, both credentials in the
\* environment, a repository that exists and one pull request selected whose
\* calls would all succeed: answered 500 with no upstream call.
C21_Witness ==
    /\ main_request.endpoint = "enrich"
    /\ BodyAccepted
    /\ main_request.env_GITHUB_TOKEN /\ main_request.env_OPENAI_API_KEY
    /\ main_request.upstream = "ok"
    /\ Len(main_request.selected_items) = 1
    /\ main_request.selected_items[1].type = "pull_request"
    /\ main_request.selected_items[1].number.tag = "value"
    /\ main_request.selected_items[1].upstream = "ok"
    /\ main_pc = "done"
    /\ main_response = AppError(500)
    /\ main_calls = <<>>

=============================================================================
